---- MODULE Spec2Model ----
(***************************************************************************)
(* A model of three parts of the Leo compiler:                             *)
(*   - types/src/expression.rs: lowering of parse-tree expressions to the  *)
(*     Expression IR (the From impls), get_count, and Display;             *)
(*   - compiler/src/constraints/integer/uint16.rs: the u16 gadget calls;   *)
(*   - package/src/outputs/verification_key.rs: the verification key file. *)
(* Each part has its own specification over the shared variable tuple:     *)
(* SpecLower, SpecDisplay, SpecGadget and SpecFile.                        *)
(***************************************************************************)
EXTENDS Integers, Sequences, FiniteSets, TLC

VARIABLES
    input,      \* lowering: the parse-tree value handed to Expression::from
    pc,         \* lowering: "start" | "done" | "replaced"
    result,     \* lowering: outcome of the conversion
    heap,       \* lowering: box address -> element, for the top-level array
    elems,      \* lowering: the top-level array's vector of box addresses
    replaced,   \* lowering: index of the element written through, or 0
    exprA,      \* display: first expression
    exprB,      \* display: second expression
    textA,      \* display: rendering of exprA ("" before it is rendered)
    textB,      \* display: rendering of exprB
    shown,      \* display: which of the two have been rendered
    csKind,     \* gadgets: which ConstraintSystem the scope belongs to
    opened,     \* gadgets: labels of the namespaces opened in the scope, in order
    allocs,     \* gadgets: allocations requested, in order
    last,       \* gadgets: the last call and its outcome
    ncalls,     \* gadgets: number of calls made
    package_name, \* key file: the package_name of the VerificationKeyFile
    fs,         \* key file: the file system (directories, files and their bytes)
    fileCalls   \* key file: the calls made on the VerificationKeyFile, in order

lowerVars == <<input, pc, result, heap, elems, replaced>>
dispVars == <<exprA, exprB, textA, textB, shown>>
gadVars == <<csKind, opened, allocs, last, ncalls>>
fileVars == <<package_name, fs, fileCalls>>
vars == <<input, pc, result, heap, elems, replaced, exprA, exprB, textA, textB, shown,
          csKind, opened, allocs, last, ncalls, package_name, fs, fileCalls>>

(***************************************************************************)
(* Bounds of the model.                                                    *)
(***************************************************************************)
\* Number of nested From calls the thread's stack holds before it overflows.
MaxStack == 16
\* Longest postfix / assignee access chain drawn as input.
MaxAccesses == 3
\* Largest array-initializer count whose vector is built in the model.
MaxCount == 3
\* Number of gadget calls issued against one constraint-system scope.
MaxCalls == 3

(***************************************************************************)
(* Text.  A Rust String is a sequence of one-character strings, so that    *)
(* parsing reads it character by character; Str gives the TLA+ string.     *)
(***************************************************************************)
RECURSIVE Str(_)
Str(cs) == IF cs = <<>> THEN "" ELSE Head(cs) \o Str(Tail(cs))

Digits == {"0", "1", "2", "3", "4", "5", "6", "7", "8", "9"}

DigitVal(c) ==
    CASE c = "0" -> 0 [] c = "1" -> 1 [] c = "2" -> 2 [] c = "3" -> 3 [] c = "4" -> 4
      [] c = "5" -> 5 [] c = "6" -> 6 [] c = "7" -> 7 [] c = "8" -> 8 [] c = "9" -> 9

\* usize::MAX on a 64-bit target, 18446744073709551615, as decimal digits.
UsizeMaxDigits ==
    <<"1","8","4","4","6","7","4","4","0","7","3","7","0","9","5","5","1","6","1","5">>

RECURSIVE StripZeros(_)
StripZeros(ds) == IF ds # <<>> /\ Head(ds) = "0" THEN StripZeros(Tail(ds)) ELSE ds

RECURSIVE DigitsGreater(_, _)
\* For digit strings of equal length: a > b as numbers.
DigitsGreater(a, b) ==
    IF a = <<>> THEN FALSE
    ELSE IF DigitVal(Head(a)) # DigitVal(Head(b)) THEN DigitVal(Head(a)) > DigitVal(Head(b))
    ELSE DigitsGreater(Tail(a), Tail(b))

\* The checked multiply/add of the parse loop overflows exactly when the
\* number read exceeds usize::MAX.
ExceedsUsize(ds) ==
    LET s == StripZeros(ds) IN
    \/ Len(s) > Len(UsizeMaxDigits)
    \/ Len(s) = Len(UsizeMaxDigits) /\ DigitsGreater(s, UsizeMaxDigits)

RECURSIVE AccumulateDigits(_, _)
\* result = result * 10 + digit, left to right.
AccumulateDigits(ds, acc) ==
    IF ds = <<>> THEN acc ELSE AccumulateDigits(Tail(ds), acc * 10 + DigitVal(Head(ds)))

\* str::parse::<usize>: an optional leading "+", then one or more decimal
\* digits, the value at most usize::MAX.  [ok |-> FALSE] is Err(ParseIntError).
ParseUsize(text) ==
    LET ds == IF text # <<>> /\ Head(text) = "+" THEN Tail(text) ELSE text IN
    IF ds = <<>> THEN [ok |-> FALSE, n |-> 0]
    ELSE IF \E i \in 1..Len(ds) : ds[i] \notin Digits THEN [ok |-> FALSE, n |-> 0]
    ELSE IF ExceedsUsize(ds) THEN [ok |-> FALSE, n |-> 0]
    ELSE [ok |-> TRUE, n |-> AccumulateDigits(StripZeros(ds), 0)]

\* str::parse::<bool>: exactly "true" or "false".
ParseBool(text) ==
    IF text = <<"t","r","u","e">> THEN [ok |-> TRUE, b |-> TRUE]
    ELSE IF text = <<"f","a","l","s","e">> THEN [ok |-> TRUE, b |-> FALSE]
    ELSE [ok |-> FALSE, b |-> FALSE]

(***************************************************************************)
(* Parse-tree (leo_ast) values.                                            *)
(***************************************************************************)
AstIdentifier(n) == [k |-> "Identifier", name |-> n]
AstValue(vk, text, ty) == [k |-> "Value", vk |-> vk, text |-> text, ty |-> ty]
AstNot(e) == [k |-> "Not", expression |-> e]
AstBinary(op, l, r, s) == [k |-> "Binary", operation |-> op, left |-> l, right |-> r, span |-> s]
AstTernary(a, b, c, s) == [k |-> "Ternary", first |-> a, second |-> b, third |-> c, span |-> s]
AstArrayInline(es, s) == [k |-> "ArrayInline", expressions |-> es, span |-> s]
AstArrayInitializer(e, c, s) == [k |-> "ArrayInitializer", expression |-> e, count |-> c, span |-> s]
AstCircuitInline(id, ms, s) == [k |-> "CircuitInline", identifier |-> id, members |-> ms, span |-> s]
AstPostfix(id, as) == [k |-> "Postfix", identifier |-> id, accesses |-> as]
AstAssignee(id, as) == [k |-> "Assignee", identifier |-> id, accesses |-> as]
AstSpread(e) == [sk |-> "Spread", expression |-> e]
AstPlain(e) == [sk |-> "Expression", expression |-> e]
AstIndex(e) == [rk |-> "Expression", expression |-> e]
AccessArray(roe, s) == [ak |-> "Array", expression |-> roe, span |-> s]
AccessCall(es, s) == [ak |-> "Call", expressions |-> es, span |-> s]
AccessObject(id, s) == [ak |-> "Object", identifier |-> id, span |-> s]
AccessStaticObject(id, s) == [ak |-> "StaticObject", identifier |-> id, span |-> s]
AssigneeMember(id, s) == [ak |-> "Member", identifier |-> id, span |-> s]

BinaryOperation ==
    {"Or", "And", "Eq", "Ne", "Ge", "Gt", "Le", "Lt", "Add", "Sub", "Mul", "Div", "Pow"}

(***************************************************************************)
(* The Expression IR (enum Expression).  A Box in an array's vector is a   *)
(* record of its address and its content.                                  *)
(***************************************************************************)
Identifier(n) == [k |-> "Identifier", name |-> n]
BinaryNode(kind, l, r, s) == [k |-> kind, left |-> l, right |-> r, span |-> s]
NotNode(e) == [k |-> "Not", expression |-> e]
IfElse(a, b, c, s) == [k |-> "IfElse", first |-> a, second |-> b, third |-> c, span |-> s]
Array(boxes, s) == [k |-> "Array", elems |-> boxes, span |-> s]
ArrayAccess(a, i, s) == [k |-> "ArrayAccess", array |-> a, index |-> i, span |-> s]
Circuit(n, ms, s) == [k |-> "Circuit", name |-> n, members |-> ms, span |-> s]
CircuitMemberAccess(c, m, s) == [k |-> "CircuitMemberAccess", circuit |-> c, member |-> m, span |-> s]
CircuitStaticFunctionAccess(c, m, s) ==
    [k |-> "CircuitStaticFunctionAccess", circuit |-> c, member |-> m, span |-> s]
FunctionCall(f, args, s) == [k |-> "FunctionCall", function |-> f, arguments |-> args, span |-> s]

\* Outcome of a conversion: the value, or the way the process died; n counts
\* the parse-tree nodes whose conversion was entered.
NoExpr == [k |-> "none"]
Ok(v, n) == [st |-> "ok", v |-> v, n |-> n]
Die(why, n) == [st |-> why, v |-> NoExpr, n |-> n]
StackOverflow == "stack overflow"
PanicArraySize == "panic: Unable to read array size"
PanicUnimplemented == "panic: not implemented: Array size should be an integer"
PanicBoolean == "panic: unable to parse boolean"

\* get_count with a parse failure read as a count of zero.
get_count_lenient(count) ==
    CASE count.vk = "Integer" -> [st |-> "ok", n |-> ParseUsize(count.text).n]
      [] count.vk = "Implicit" -> [st |-> "ok", n |-> ParseUsize(count.text).n]
      [] OTHER -> [st |-> PanicUnimplemented, n |-> 0]

(***************************************************************************)
(* Expression::get_count.                                                  *)
(***************************************************************************)
get_count(count) ==
    CASE count.vk = "Integer" ->
            LET p == ParseUsize(count.text) IN
            IF p.ok THEN [st |-> "ok", n |-> p.n] ELSE [st |-> PanicArraySize, n |-> 0]
      [] count.vk = "Implicit" ->
            LET p == ParseUsize(count.text) IN
            IF p.ok THEN [st |-> "ok", n |-> p.n] ELSE [st |-> PanicArraySize, n |-> 0]
      [] OTHER -> [st |-> PanicUnimplemented, n |-> 0]

\* A vector whose n slots all point to the one box.
vec_from_elem_shared(elem, n) == [i \in 1..n |-> [addr |-> 1, val |-> elem]]

\* vec![elem; n]: n boxes, each a clone of elem in a box of its own.
vec_from_elem(elem, n) == [i \in 1..n |-> [addr |-> i, val |-> elem]]

(***************************************************************************)
(* The From impls.  d is the number of From frames on the stack.           *)
(***************************************************************************)
RECURSIVE From_AstExpression(_, _)
RECURSIVE From_BinaryExpression(_, _)
RECURSIVE From_SpreadOrExpression(_, _)
RECURSIVE From_RangeOrExpression(_, _)
RECURSIVE From_ExpressionList(_, _)
RECURSIVE From_SpreadList(_, _)
RECURSIVE From_MemberList(_, _)
RECURSIVE FoldAccesses(_, _, _)
RECURSIVE FoldAssigneeAccesses(_, _, _)

From_Value(value) ==
    CASE value.vk = "Integer" -> Ok([k |-> "Integer", text |-> value.text, ty |-> value.ty], 1)
      [] value.vk = "Field" -> Ok([k |-> "Field", text |-> value.text], 1)
      [] value.vk = "Group" -> Ok([k |-> "Group", text |-> value.text], 1)
      [] value.vk = "Boolean" ->
            LET p == ParseBool(value.text) IN
            IF p.ok THEN Ok([k |-> "Boolean", b |-> p.b], 1) ELSE Die(PanicBoolean, 1)
      [] value.vk = "Implicit" -> Ok([k |-> "Implicit", text |-> value.text], 1)

\* The twelve arms that build a binary variant from the lowered operands.
BinaryArm(kind, expression, d) ==
    LET l == From_AstExpression(expression.left, d + 1) IN
    IF l.st # "ok" THEN Die(l.st, 1 + l.n)
    ELSE LET r == From_AstExpression(expression.right, d + 1) IN
         IF r.st # "ok" THEN Die(r.st, 1 + l.n + r.n)
         ELSE Ok(BinaryNode(kind, l.v, r.v, expression.span), 1 + l.n + r.n)

\* The Ne arm: Not around Expression::from(expression), expression being the
\* same BinaryExpression, its operation still Ne.
NeArm(expression, d) ==
    LET e == From_BinaryExpression(expression, d + 1) IN
    IF e.st # "ok" THEN Die(e.st, 1 + e.n) ELSE Ok(NotNode(e.v), 1 + e.n)

From_BinaryExpression(expression, d) ==
    IF d > MaxStack THEN Die(StackOverflow, 0)
    ELSE CASE expression.operation = "Or" -> BinaryArm("Or", expression, d)
           [] expression.operation = "And" -> BinaryArm("And", expression, d)
           [] expression.operation = "Eq" -> BinaryArm("Eq", expression, d)
           [] expression.operation = "Ne" -> NeArm(expression, d)
           [] expression.operation = "Ge" -> BinaryArm("Ge", expression, d)
           [] expression.operation = "Gt" -> BinaryArm("Gt", expression, d)
           [] expression.operation = "Le" -> BinaryArm("Le", expression, d)
           [] expression.operation = "Lt" -> BinaryArm("Lt", expression, d)
           [] expression.operation = "Add" -> BinaryArm("Add", expression, d)
           [] expression.operation = "Sub" -> BinaryArm("Sub", expression, d)
           [] expression.operation = "Mul" -> BinaryArm("Mul", expression, d)
           [] expression.operation = "Div" -> BinaryArm("Div", expression, d)
           [] expression.operation = "Pow" -> BinaryArm("Pow", expression, d)

From_NotExpression(expression, d) ==
    LET e == From_AstExpression(expression.expression, d + 1) IN
    IF e.st # "ok" THEN Die(e.st, 1 + e.n) ELSE Ok(NotNode(e.v), 1 + e.n)

From_TernaryExpression(expression, d) ==
    LET a == From_AstExpression(expression.first, d + 1) IN
    IF a.st # "ok" THEN Die(a.st, 1 + a.n)
    ELSE LET b == From_AstExpression(expression.second, d + 1) IN
         IF b.st # "ok" THEN Die(b.st, 1 + a.n + b.n)
         ELSE LET c == From_AstExpression(expression.third, d + 1) IN
              IF c.st # "ok" THEN Die(c.st, 1 + a.n + b.n + c.n)
              ELSE Ok(IfElse(a.v, b.v, c.v, expression.span), 1 + a.n + b.n + c.n)

\* SpreadOrExpression::from: a spread or a plain expression, its expression lowered.
From_SpreadOrExpression(s_or_e, d) ==
    LET e == From_AstExpression(s_or_e.expression, d + 1) IN
    IF e.st # "ok" THEN [st |-> e.st, val |-> NoExpr, n |-> e.n]
    ELSE [st |-> "ok", val |-> [sk |-> s_or_e.sk, expression |-> e.v], n |-> e.n]

\* RangeOrExpression::from, for an index that is an expression.
From_RangeOrExpression(r_or_e, d) ==
    LET e == From_AstExpression(r_or_e.expression, d + 1) IN
    IF e.st # "ok" THEN [st |-> e.st, val |-> NoExpr, n |-> e.n]
    ELSE [st |-> "ok", val |-> [rk |-> r_or_e.rk, expression |-> e.v], n |-> e.n]

\* into_iter().map(Expression::from).collect(), left to right.
From_ExpressionList(es, d) ==
    IF es = <<>> THEN [st |-> "ok", vs |-> <<>>, n |-> 0]
    ELSE LET h == From_AstExpression(Head(es), d + 1) IN
         IF h.st # "ok" THEN [st |-> h.st, vs |-> <<>>, n |-> h.n]
         ELSE LET t == From_ExpressionList(Tail(es), d) IN
              [st |-> t.st, vs |-> IF t.st = "ok" THEN <<h.v>> \o t.vs ELSE <<>>, n |-> h.n + t.n]

\* into_iter().map(|s_or_e| SpreadOrExpression::from(s_or_e)), left to right.
From_SpreadList(es, d) ==
    IF es = <<>> THEN [st |-> "ok", vs |-> <<>>, n |-> 0]
    ELSE LET h == From_SpreadOrExpression(Head(es), d + 1) IN
         IF h.st # "ok" THEN [st |-> h.st, vs |-> <<>>, n |-> h.n]
         ELSE LET t == From_SpreadList(Tail(es), d) IN
              [st |-> t.st, vs |-> IF t.st = "ok" THEN <<h.val>> \o t.vs ELSE <<>>, n |-> h.n + t.n]

\* into_iter().map(|member| CircuitFieldDefinition::from(member)), left to right.
From_MemberList(ms, d) ==
    IF ms = <<>> THEN [st |-> "ok", vs |-> <<>>, n |-> 0]
    ELSE LET h == From_AstExpression(Head(ms).expression, d + 2) IN
         IF h.st # "ok" THEN [st |-> h.st, vs |-> <<>>, n |-> h.n]
         ELSE LET t == From_MemberList(Tail(ms), d) IN
              [st |-> t.st,
               vs |-> IF t.st = "ok"
                      THEN <<[identifier |-> Head(ms).identifier, expression |-> h.v]>> \o t.vs
                      ELSE <<>>,
               n |-> h.n + t.n]

From_ArrayInlineExpression(array, d) ==
    LET es == From_SpreadList(array.expressions, d) IN
    IF es.st # "ok" THEN Die(es.st, 1 + es.n)
    ELSE Ok(Array([i \in 1..Len(es.vs) |-> [addr |-> i, val |-> es.vs[i]]], array.span), 1 + es.n)

From_ArrayInitializerExpression(array, d) ==
    LET count == get_count(array.count) IN
    IF count.st # "ok" THEN Die(count.st, 1)
    ELSE LET expression == From_SpreadOrExpression(array.expression, d + 1) IN
         IF expression.st # "ok" THEN Die(expression.st, 1 + expression.n)
         ELSE Ok(Array(vec_from_elem(expression.val, count.n), array.span), 1 + expression.n)

From_CircuitInlineExpression(expression, d) ==
    LET members == From_MemberList(expression.members, d) IN
    IF members.st # "ok" THEN Die(members.st, 1 + members.n)
    ELSE Ok(Circuit(expression.identifier, members.vs, expression.span), 1 + members.n)

\* The closure of the fold in From<PostfixExpression>: one access wrapped
\* around the accumulator.
WrapAccess(acc, access, d) ==
    CASE access.ak = "Array" ->
            LET i == From_RangeOrExpression(access.expression, d + 1) IN
            IF i.st # "ok" THEN Die(i.st, acc.n + i.n)
            ELSE Ok(ArrayAccess(acc.v, i.val, access.span), acc.n + i.n)
      [] access.ak = "Call" ->
            LET args == From_ExpressionList(access.expressions, d) IN
            IF args.st # "ok" THEN Die(args.st, acc.n + args.n)
            ELSE Ok(FunctionCall(acc.v, args.vs, access.span), acc.n + args.n)
      [] access.ak = "Object" ->
            Ok(CircuitMemberAccess(acc.v, access.identifier, access.span), acc.n)
      [] access.ak = "StaticObject" ->
            Ok(CircuitStaticFunctionAccess(acc.v, access.identifier, access.span), acc.n)

RECURSIVE FoldAccessesFromLast(_, _, _)
\* The fold taken from the last access to the first.
FoldAccessesFromLast(acc, accesses, d) ==
    IF acc.st # "ok" \/ accesses = <<>> THEN acc
    ELSE FoldAccessesFromLast(WrapAccess(acc, accesses[Len(accesses)], d),
                              SubSeq(accesses, 1, Len(accesses) - 1), d)

\* Iterator::fold over the accesses, first to last.
FoldAccesses(acc, accesses, d) ==
    IF acc.st # "ok" \/ accesses = <<>> THEN acc
    ELSE FoldAccesses(WrapAccess(acc, Head(accesses), d), Tail(accesses), d)

From_PostfixExpression(expression, d) ==
    LET variable == Ok(Identifier(expression.identifier), 1) IN
    FoldAccesses(variable, expression.accesses, d + 1)

\* The closure of the fold in From<Assignee>.
WrapAssigneeAccess(acc, access, d) ==
    CASE access.ak = "Member" ->
            Ok(CircuitMemberAccess(acc.v, access.identifier, access.span), acc.n)
      [] access.ak = "Array" ->
            LET i == From_RangeOrExpression(access.expression, d + 1) IN
            IF i.st # "ok" THEN Die(i.st, acc.n + i.n)
            ELSE Ok(ArrayAccess(acc.v, i.val, access.span), acc.n + i.n)

FoldAssigneeAccesses(acc, accesses, d) ==
    IF acc.st # "ok" \/ accesses = <<>> THEN acc
    ELSE FoldAssigneeAccesses(WrapAssigneeAccess(acc, Head(accesses), d), Tail(accesses), d)

From_Assignee(assignee, d) ==
    LET variable == Ok(Identifier(assignee.identifier), 1) IN
    FoldAssigneeAccesses(variable, assignee.accesses, d + 1)

From_AstExpression(expression, d) ==
    IF d > MaxStack THEN Die(StackOverflow, 0)
    ELSE CASE expression.k = "Value" -> From_Value(expression)
           [] expression.k = "Identifier" -> Ok(Identifier(expression.name), 1)
           [] expression.k = "Not" -> From_NotExpression(expression, d + 1)
           [] expression.k = "Binary" -> From_BinaryExpression(expression, d + 1)
           [] expression.k = "Ternary" -> From_TernaryExpression(expression, d + 1)
           [] expression.k = "ArrayInline" -> From_ArrayInlineExpression(expression, d + 1)
           [] expression.k = "ArrayInitializer" -> From_ArrayInitializerExpression(expression, d + 1)
           [] expression.k = "CircuitInline" -> From_CircuitInlineExpression(expression, d + 1)
           [] expression.k = "Postfix" -> From_PostfixExpression(expression, d + 1)

(***************************************************************************)
(* Inputs of the lowering.                                                 *)
(***************************************************************************)
Spans == {1, 2}

DigitChar(i) == CHOOSE c \in Digits : DigitVal(c) = i

TextTrue == <<"t","r","u","e">>

\* usize::MAX + 1.
TextTooBig ==
    <<"1","8","4","4","6","7","4","4","0","7","3","7","0","9","5","5","1","6","1","6">>

CountTexts ==
    {<<DigitChar(i)>> : i \in 0..MaxCount}
        \cup {<<"+", "2">>, <<"0", "2">>, <<"-", "1">>, <<>>, <<"x">>, <<"+">>, <<"1", "u">>, TextTooBig}

CountValues ==
    {AstValue("Integer", t, "u32") : t \in CountTexts}
        \cup {AstValue("Implicit", t, "") : t \in CountTexts}
        \cup {AstValue("Field", <<"2">>, ""), AstValue("Group", <<"2">>, ""),
              AstValue("Boolean", TextTrue, "")}

LeafAsts ==
    {AstIdentifier("a"), AstIdentifier("b"), AstValue("Implicit", <<"1">>, "")}

ValueAsts ==
    {AstValue("Integer", <<"5">>, "u8"), AstValue("Field", <<"5">>, ""),
     AstValue("Group", <<"0">>, ""), AstValue("Boolean", TextTrue, ""),
     AstValue("Boolean", <<"f","a","l","s","e">>, ""), AstValue("Implicit", <<"4">>, "")}

InnerAsts ==
    {AstBinary("Ne", AstIdentifier("a"), AstIdentifier("b"), 1),
     AstBinary("Add", AstIdentifier("a"), AstIdentifier("b"), 1),
     AstBinary("Eq", AstIdentifier("a"), AstIdentifier("b"), 2),
     AstNot(AstIdentifier("a")),
     AstTernary(AstIdentifier("a"), AstIdentifier("b"), AstValue("Implicit", <<"1">>, ""), 1),
     AstArrayInitializer(AstPlain(AstIdentifier("a")), AstValue("Implicit", <<"2">>, ""), 1),
     AstPostfix("a", <<AccessObject("b", 1)>>)}

OperandAsts == LeafAsts \cup InnerAsts

BinaryInputs ==
    {AstBinary(op, l, r, s) : op \in BinaryOperation, l \in LeafAsts, r \in LeafAsts, s \in Spans}
        \cup {AstBinary(op, l, AstIdentifier("c"), 1) : op \in BinaryOperation, l \in InnerAsts}
        \cup {AstBinary(op, AstIdentifier("c"), r, 1) : op \in BinaryOperation, r \in InnerAsts}

NotInputs == {AstNot(e) : e \in OperandAsts}

TernaryInputs ==
    {AstTernary(a, b, c, 1) :
        a \in {AstIdentifier("a"), AstBinary("Ne", AstIdentifier("a"), AstIdentifier("b"), 1)},
        b \in OperandAsts, c \in LeafAsts}

SpreadOrExpressionAsts == {AstPlain(e) : e \in OperandAsts} \cup {AstSpread(AstIdentifier("a"))}

ArrayInlineInputs ==
    {AstArrayInline(<<>>, 1)}
        \cup {AstArrayInline(<<x>>, 1) : x \in SpreadOrExpressionAsts}
        \cup {AstArrayInline(<<x, y>>, 2) :
                x \in SpreadOrExpressionAsts, y \in {AstPlain(AstIdentifier("b")), AstSpread(AstIdentifier("a"))}}

ArrayInitializerInputs ==
    {AstArrayInitializer(e, c, 1) : e \in SpreadOrExpressionAsts, c \in CountValues}

CircuitInlineInputs ==
    {AstCircuitInline("P", <<>>, 1)}
        \cup {AstCircuitInline("P", <<[identifier |-> "x", expression |-> e]>>, 1) : e \in OperandAsts}
        \cup {AstCircuitInline("P", <<[identifier |-> "x", expression |-> e],
                                     [identifier |-> "y", expression |-> AstIdentifier("b")]>>, 2) :
                e \in OperandAsts}

AccessChoices ==
    {AccessArray(AstIndex(AstValue("Implicit", <<"2">>, "")), 1),
     AccessCall(<<AstValue("Implicit", <<"1">>, "")>>, 2),
     AccessCall(<<>>, 1),
     AccessCall(<<AstIdentifier("x"), AstBinary("Ne", AstIdentifier("a"), AstIdentifier("b"), 1)>>, 1),
     AccessObject("b", 1),
     AccessStaticObject("c", 2)}

AssigneeAccessChoices ==
    {AssigneeMember("b", 1), AssigneeMember("c", 2),
     AccessArray(AstIndex(AstValue("Implicit", <<"2">>, "")), 1),
     AccessArray(AstIndex(AstBinary("Ne", AstIdentifier("a"), AstIdentifier("b"), 1)), 2)}

RECURSIVE SeqsUpTo(_, _)
\* The sequences over S of length at most n.
SeqsUpTo(S, n) ==
    IF n = 0 THEN {<<>>}
    ELSE LET shorter == SeqsUpTo(S, n - 1) IN
         shorter \cup {Append(q, x) : q \in {r \in shorter : Len(r) = n - 1}, x \in S}

PostfixInputs == {AstPostfix(id, as) : id \in {"a"}, as \in SeqsUpTo(AccessChoices, MaxAccesses)}

AssigneeInputs ==
    {AstAssignee(id, as) : id \in {"a"}, as \in SeqsUpTo(AssigneeAccessChoices, MaxAccesses)}

ExpressionInputs ==
    LeafAsts \cup ValueAsts \cup InnerAsts \cup BinaryInputs \cup NotInputs \cup TernaryInputs
        \cup ArrayInlineInputs \cup ArrayInitializerInputs \cup CircuitInlineInputs
        \cup PostfixInputs

\* Values written through a box of the lowered array.
ReplacementValues == {[sk |-> "Expression", expression |-> Identifier("z")]}

(***************************************************************************)
(* The lowering as a state machine: one conversion, then possibly one      *)
(* write through a box of the array it produced.                           *)
(***************************************************************************)
NoResult == [st |-> "not run", v |-> NoExpr, n |-> 0]

\* The vector of a lowered array, laid out as addresses and the heap cells
\* they point to.
BoxAddrs(r) ==
    IF r.st = "ok" /\ r.v.k = "Array" THEN [i \in 1..Len(r.v.elems) |-> r.v.elems[i].addr] ELSE <<>>

BoxHeap(r) ==
    IF r.st = "ok" /\ r.v.k = "Array"
    THEN [a \in {r.v.elems[i].addr : i \in 1..Len(r.v.elems)} |->
            (CHOOSE b \in {r.v.elems[i] : i \in 1..Len(r.v.elems)} : b.addr = a).val]
    ELSE <<>>

GadgetsIdle ==
    /\ csKind = "setup" /\ opened = <<>> /\ allocs = <<>> /\ ncalls = 0
    /\ last = [op |-> "none"]

DisplayIdle ==
    /\ exprA = NoExpr /\ exprB = NoExpr /\ textA = "" /\ textB = "" /\ shown = {}

LowerIdle ==
    /\ input = NoExpr /\ pc = "idle" /\ result = NoResult
    /\ heap = <<>> /\ elems = <<>> /\ replaced = 0

\* A file system with nothing in it.
NoFileSystem == [dirs |-> {}, files |-> <<>>, locked |-> {}, full |-> FALSE]

FileIdle ==
    /\ package_name = "" /\ fs = NoFileSystem /\ fileCalls = <<>>

InitLower ==
    /\ input \in ExpressionInputs \cup AssigneeInputs
    /\ pc = "start"
    /\ result = NoResult
    /\ heap = <<>>
    /\ elems = <<>>
    /\ replaced = 0
    /\ DisplayIdle
    /\ GadgetsIdle
    /\ FileIdle

LowerExpression ==
    /\ pc = "start"
    /\ input.k # "Assignee"
    /\ result' = From_AstExpression(input, 1)
    /\ elems' = BoxAddrs(result')
    /\ heap' = BoxHeap(result')
    /\ pc' = "done"
    /\ UNCHANGED <<input, replaced>>
    /\ UNCHANGED <<dispVars, gadVars, fileVars>>

LowerAssignee ==
    /\ pc = "start"
    /\ input.k = "Assignee"
    /\ result' = From_Assignee(input, 1)
    /\ elems' = <<>>
    /\ heap' = <<>>
    /\ pc' = "done"
    /\ UNCHANGED <<input, replaced>>
    /\ UNCHANGED <<dispVars, gadVars, fileVars>>

\* *array[i] = v on the lowered array.
ReplaceElement ==
    /\ pc = "done"
    /\ \E i \in 1..Len(elems), v \in ReplacementValues :
        /\ heap' = [heap EXCEPT ![elems[i]] = v]
        /\ replaced' = i
    /\ pc' = "replaced"
    /\ UNCHANGED <<input, result, elems>>
    /\ UNCHANGED <<dispVars, gadVars, fileVars>>

NextLower == LowerExpression \/ LowerAssignee \/ ReplaceElement

SpecLower == InitLower /\ [][NextLower]_vars

(***************************************************************************)
(* Properties of the lowering.                                             *)
(***************************************************************************)
Lowered == pc \in {"done", "replaced"}

\* The lowering of a sub-expression on its own.
Low(e) == From_AstExpression(e, 1)

RECURSIVE AstSize(_)
RECURSIVE AstSizeSum(_)
RECURSIVE AccessSizeSum(_)
\* Number of parse-tree expression nodes of e.
AstSize(e) ==
    CASE e.k \in {"Value", "Identifier"} -> 1
      [] e.k = "Not" -> 1 + AstSize(e.expression)
      [] e.k = "Binary" -> 1 + AstSize(e.left) + AstSize(e.right)
      [] e.k = "Ternary" -> 1 + AstSize(e.first) + AstSize(e.second) + AstSize(e.third)
      [] e.k = "ArrayInline" -> 1 + AstSizeSum(e.expressions)
      [] e.k = "ArrayInitializer" -> 1 + AstSize(e.expression.expression)
      [] e.k = "CircuitInline" -> 1 + AstSizeSum(e.members)
      [] e.k \in {"Postfix", "Assignee"} -> 1 + AccessSizeSum(e.accesses)

AstSizeSum(es) == IF es = <<>> THEN 0 ELSE AstSize(Head(es).expression) + AstSizeSum(Tail(es))

AccessSizeSum(as) ==
    IF as = <<>> THEN 0
    ELSE AccessSizeSum(Tail(as))
            + (CASE Head(as).ak = "Array" -> AstSize(Head(as).expression.expression)
                 [] Head(as).ak = "Call" ->
                        AstSizeSum([i \in 1..Len(Head(as).expressions) |->
                                        [expression |-> Head(as).expressions[i]]])
                 [] OTHER -> 0)

\* Decimal value of a digit string, digit by position.
RECURSIVE Pow10(_)
Pow10(n) == IF n = 0 THEN 1 ELSE 10 * Pow10(n - 1)

RECURSIVE DecimalValueFrom(_, _)
DecimalValueFrom(ds, i) ==
    IF i > Len(ds) THEN 0 ELSE DigitVal(ds[i]) * Pow10(Len(ds) - i) + DecimalValueFrom(ds, i + 1)

AllDigits(ds) == ds # <<>> /\ \A i \in 1..Len(ds) : ds[i] \in Digits

Unsigned(text) == IF text # <<>> /\ text[1] = "+" THEN SubSeq(text, 2, Len(text)) ELSE text

\* The text is that of an unsigned integer a usize holds.
UnsignedText(text) == AllDigits(Unsigned(text)) /\ ~ExceedsUsize(Unsigned(text))

\* The count is a literal: an integer or implicit number written in digits.
LiteralCount(c) == c.vk \in {"Integer", "Implicit"} /\ AllDigits(c.text) /\ ~ExceedsUsize(c.text)

RECURSIVE Recognized(_)
\* e is built from the recognized forms, its booleans true or false and its
\* array-initializer counts literals.
Recognized(e) ==
    CASE e.k = "Identifier" -> TRUE
      [] e.k = "Value" -> e.vk = "Boolean" => e.text \in {TextTrue, <<"f","a","l","s","e">>}
      [] e.k = "Not" -> Recognized(e.expression)
      [] e.k = "Binary" -> e.operation \in BinaryOperation /\ Recognized(e.left) /\ Recognized(e.right)
      [] e.k = "Ternary" -> Recognized(e.first) /\ Recognized(e.second) /\ Recognized(e.third)
      [] e.k = "ArrayInline" ->
            \A i \in 1..Len(e.expressions) : Recognized(e.expressions[i].expression)
      [] e.k = "ArrayInitializer" -> LiteralCount(e.count) /\ Recognized(e.expression.expression)
      [] e.k = "CircuitInline" -> \A i \in 1..Len(e.members) : Recognized(e.members[i].expression)
      [] e.k = "Postfix" ->
            \A i \in 1..Len(e.accesses) :
                CASE e.accesses[i].ak = "Array" -> Recognized(e.accesses[i].expression.expression)
                  [] e.accesses[i].ak = "Call" ->
                        \A j \in 1..Len(e.accesses[i].expressions) :
                            Recognized(e.accesses[i].expressions[j])
                  [] OTHER -> TRUE
      [] OTHER -> FALSE

\* C1: lowering a binary expression whose operator is Ne, with operands L and
\* R that lower, yields Not(Eq(lower(L), lower(R), span)).
C1_NeLowersToNotEq ==
    (Lowered /\ input.k = "Binary" /\ input.operation = "Ne"
        /\ Low(input.left).st = "ok" /\ Low(input.right).st = "ok")
    => /\ result.st = "ok"
       /\ result.v = NotNode(BinaryNode("Eq", Low(input.left).v, Low(input.right).v, input.span))

\* C2: lowering returns an Expression for every parse-tree expression built
\* from the recognized forms, after at most as many conversion steps as the
\* tree has nodes.
C2_LoweringTotal ==
    (Lowered /\ input.k # "Assignee" /\ Recognized(input))
    => result.st = "ok" /\ result.n <= AstSize(input)

\* The arguments and indices of an access chain all lower.
AccessesLower(as) ==
    \A i \in 1..Len(as) :
        CASE as[i].ak = "Array" -> Low(as[i].expression.expression).st = "ok"
          [] as[i].ak = "Call" ->
                \A j \in 1..Len(as[i].expressions) : Low(as[i].expressions[j]).st = "ok"
          [] OTHER -> TRUE

\* v is the node of access a: its variant, its payload and its span.
NodeOfAccess(v, a) ==
    CASE a.ak = "Call" ->
            /\ v.k = "FunctionCall"
            /\ v.arguments = [j \in 1..Len(a.expressions) |-> Low(a.expressions[j]).v]
            /\ v.span = a.span
      [] a.ak = "Array" ->
            /\ v.k = "ArrayAccess"
            /\ v.index = [rk |-> "Expression", expression |-> Low(a.expression.expression).v]
            /\ v.span = a.span
      [] a.ak \in {"Object", "Member"} ->
            v.k = "CircuitMemberAccess" /\ v.member = a.identifier /\ v.span = a.span
      [] a.ak = "StaticObject" ->
            v.k = "CircuitStaticFunctionAccess" /\ v.member = a.identifier /\ v.span = a.span

\* The expression an access node wraps.
Wrapped(v) ==
    CASE v.k = "FunctionCall" -> v.function
      [] v.k = "ArrayAccess" -> v.array
      [] OTHER -> v.circuit

RECURSIVE Peels(_, _, _)
\* Taking the nodes of v off from the outside meets the accesses from the
\* last to the first, and then the identifier.
Peels(v, id, as) ==
    IF as = <<>> THEN v = Identifier(id)
    ELSE /\ NodeOfAccess(v, as[Len(as)])
         /\ Peels(Wrapped(v), id, SubSeq(as, 1, Len(as) - 1))

\* a(1)[2].b and its lowering.
ExamplePostfix ==
    AstPostfix("a", <<AccessCall(<<AstValue("Implicit", <<"1">>, "")>>, 2),
                      AccessArray(AstIndex(AstValue("Implicit", <<"2">>, "")), 1),
                      AccessObject("b", 1)>>)

ExampleLowered ==
    CircuitMemberAccess(
        ArrayAccess(
            FunctionCall(Identifier("a"), <<[k |-> "Implicit", text |-> <<"1">>]>>, 2),
            [rk |-> "Expression", expression |-> [k |-> "Implicit", text |-> <<"2">>]], 1),
        "b", 1)

\* C3: lowering a postfix chain (or an assignee) whose arguments and indices
\* lower gives the identifier wrapped by the accesses in textual order, the
\* first access innermost and the last outermost, each as its own variant;
\* a(1)[2].b gives CircuitMemberAccess(ArrayAccess(FunctionCall(a,[1]),2),b).
C3_PostfixFoldOrder ==
    (Lowered /\ input.k \in {"Postfix", "Assignee"} /\ AccessesLower(input.accesses))
    => /\ result.st = "ok"
       /\ Peels(result.v, input.identifier, input.accesses)
       /\ input = ExamplePostfix => result.v = ExampleLowered

C3_Witness ==
    /\ pc = "done" /\ input = ExamplePostfix /\ result.st = "ok"
    /\ result.v.k = "CircuitMemberAccess"

\* C4: lowering [e; N], N a literal count and e an expression that lowers,
\* gives an array of exactly N elements, each the lowering of e, each in a
\* box of its own: writing through one leaves the others as they were.
C4_ArrayInitializerCopies ==
    (Lowered /\ input.k = "ArrayInitializer" /\ LiteralCount(input.count)
        /\ Low(input.expression.expression).st = "ok")
    => LET N == DecimalValueFrom(input.count.text, 1)
           e == [sk |-> input.expression.sk, expression |-> Low(input.expression.expression).v]
       IN /\ result.st = "ok"
          /\ result.v.k = "Array"
          /\ Len(result.v.elems) = N
          /\ \A j \in 1..N : result.v.elems[j].val = e
          /\ Len(elems) = N
          /\ \A j \in 1..N : j # replaced => heap[elems[j]] = e
          /\ replaced # 0 => heap[elems[replaced]] \in ReplacementValues

C4_Witness ==
    /\ pc = "replaced" /\ input.k = "ArrayInitializer" /\ Len(elems) = MaxCount /\ replaced = 1
    /\ heap[elems[2]].expression = Identifier("a")

\* C5: get_count gives the number written when the count is an integer or
\* implicit literal whose text is an unsigned integer; with any other count
\* the lowering of the array-initializer panics and gives no expression.
C5_GetCount ==
    (Lowered /\ input.k = "ArrayInitializer")
    => IF input.count.vk \in {"Integer", "Implicit"} /\ UnsignedText(input.count.text)
       THEN /\ get_count(input.count)
                = [st |-> "ok", n |-> DecimalValueFrom(Unsigned(input.count.text), 1)]
            /\ Low(input.expression.expression).st = "ok"
                => result.st = "ok" /\ Len(result.v.elems) = get_count(input.count).n
       ELSE /\ result.st \in {PanicArraySize, PanicUnimplemented}
            /\ result.st = PanicUnimplemented <=> input.count.vk \notin {"Integer", "Implicit"}
            /\ result.v = NoExpr
            /\ elems = <<>>

C5_Witness ==
    /\ pc = "done" /\ input.k = "ArrayInitializer"
    /\ input.count.vk = "Implicit" /\ input.count.text = <<"-", "1">>
    /\ result.st = PanicArraySize

(***************************************************************************)
(* impl fmt::Display for Expression.                                       *)
(***************************************************************************)
RECURSIVE Display(_)
RECURSIVE DisplayElements(_, _)
RECURSIVE DisplayMembers(_, _)
RECURSIVE DisplayArguments(_, _)

\* Display of Identifier: its name.
DisplayIdentifier(name) == name

\* Display of Integer: the number followed by its type.
DisplayInteger(e) == Str(e.text) \o e.ty

\* Display of SpreadOrExpression: a spread is written ...e.
DisplaySpreadOrExpression(x) ==
    IF x.sk = "Spread" THEN "..." \o Display(x.expression) ELSE Display(x.expression)

\* Display of RangeOrExpression, for an index that is an expression.
DisplayRangeOrExpression(x) == Display(x.expression)

\* The loop over array.iter().enumerate(), from element i on.
DisplayElements(array, i) ==
    IF i > Len(array) THEN ""
    ELSE DisplaySpreadOrExpression(array[i].val)
            \o (IF i - 1 < Len(array) - 1 THEN ", " ELSE "")
            \o DisplayElements(array, i + 1)

\* The loop over members.iter().enumerate(), from member i on.
DisplayMembers(members, i) ==
    IF i > Len(members) THEN ""
    ELSE DisplayIdentifier(members[i].identifier) \o ": " \o Display(members[i].expression)
            \o (IF i - 1 < Len(members) - 1 THEN ", " ELSE "")
            \o DisplayMembers(members, i + 1)

\* The loop over arguments.iter().enumerate(), from argument i on.
DisplayArguments(arguments, i) ==
    IF i > Len(arguments) THEN ""
    ELSE Display(arguments[i])
            \o (IF i - 1 < Len(arguments) - 1 THEN ", " ELSE "")
            \o DisplayArguments(arguments, i + 1)

Display(e) ==
    CASE e.k = "Identifier" -> DisplayIdentifier(e.name)
      [] e.k = "Integer" -> DisplayInteger(e)
      [] e.k = "Field" -> Str(e.text)
      [] e.k = "Group" -> Str(e.text)
      [] e.k = "Boolean" -> IF e.b THEN "true" ELSE "false"
      [] e.k = "Implicit" -> Str(e.text)
      [] e.k = "Add" -> Display(e.left) \o " + " \o Display(e.right)
      [] e.k = "Sub" -> Display(e.left) \o " - " \o Display(e.right)
      [] e.k = "Mul" -> Display(e.left) \o " * " \o Display(e.right)
      [] e.k = "Div" -> Display(e.left) \o " / " \o Display(e.right)
      [] e.k = "Pow" -> Display(e.left) \o " ** " \o Display(e.right)
      [] e.k = "Not" -> "!" \o Display(e.expression)
      [] e.k = "Or" -> Display(e.left) \o " || " \o Display(e.right)
      [] e.k = "And" -> Display(e.left) \o " && " \o Display(e.right)
      [] e.k = "Eq" -> Display(e.left) \o " == " \o Display(e.right)
      [] e.k = "Ge" -> Display(e.left) \o " >= " \o Display(e.right)
      [] e.k = "Gt" -> Display(e.left) \o " > " \o Display(e.right)
      [] e.k = "Le" -> Display(e.left) \o " <= " \o Display(e.right)
      [] e.k = "Lt" -> Display(e.left) \o " < " \o Display(e.right)
      [] e.k = "IfElse" ->
            "if " \o Display(e.first) \o " then " \o Display(e.second)
                \o " else " \o Display(e.third) \o " fi"
      [] e.k = "Array" -> "[" \o DisplayElements(e.elems, 1) \o "]"
      [] e.k = "ArrayAccess" -> Display(e.array) \o "[" \o DisplayRangeOrExpression(e.index) \o "]"
      [] e.k = "Circuit" -> DisplayIdentifier(e.name) \o " {" \o DisplayMembers(e.members, 1) \o "}"
      [] e.k = "CircuitMemberAccess" -> Display(e.circuit) \o "." \o DisplayIdentifier(e.member)
      [] e.k = "CircuitStaticFunctionAccess" ->
            Display(e.circuit) \o "::" \o DisplayIdentifier(e.member)
      [] e.k = "FunctionCall" ->
            Display(e.function) \o "(" \o DisplayArguments(e.arguments, 1) \o ")"

(***************************************************************************)
(* Expressions handed to Display.  They all carry the same span, so two    *)
(* of them differ exactly when they differ apart from spans.               *)
(***************************************************************************)
DisplayLeaves ==
    {Identifier("a"), Identifier("b"), Identifier("c"),
     [k |-> "Implicit", text |-> <<"1">>], [k |-> "Boolean", b |-> TRUE],
     [k |-> "Integer", text |-> <<"5">>, ty |-> "u8"], [k |-> "Field", text |-> <<"5">>]}

DisplayKinds == {"Add", "Mul", "Pow", "Eq", "Lt", "And"}

DisplayFlat ==
    {BinaryNode(kd, Identifier("a"), Identifier("b"), 1) : kd \in DisplayKinds}
        \cup {BinaryNode(kd, Identifier("b"), Identifier("c"), 1) : kd \in DisplayKinds}

DisplayNested ==
    {BinaryNode(kd, x, Identifier("c"), 1) :
        kd \in DisplayKinds, x \in {y \in DisplayFlat : y.left = Identifier("a")}}
        \cup {BinaryNode(kd, Identifier("a"), x, 1) :
                kd \in DisplayKinds, x \in {y \in DisplayFlat : y.left = Identifier("b")}}

DisplayOthers ==
    {NotNode(Identifier("a")),
     NotNode(BinaryNode("Eq", Identifier("a"), Identifier("b"), 1)),
     BinaryNode("Eq", NotNode(Identifier("a")), Identifier("b"), 1),
     IfElse(Identifier("a"), Identifier("b"), Identifier("c"), 1),
     IfElse(Identifier("a"), Identifier("b"), BinaryNode("Add", Identifier("c"), Identifier("a"), 1), 1),
     BinaryNode("Add", IfElse(Identifier("a"), Identifier("b"), Identifier("c"), 1), Identifier("a"), 1),
     Array(<<>>, 1),
     Array(vec_from_elem([sk |-> "Expression", expression |-> Identifier("a")], 2), 1),
     Array(<<[addr |-> 1, val |-> [sk |-> "Spread", expression |-> Identifier("a")]],
             [addr |-> 2, val |-> [sk |-> "Expression", expression |-> Identifier("b")]]>>, 1),
     ArrayAccess(Identifier("a"), [rk |-> "Expression", expression |-> [k |-> "Implicit", text |-> <<"1">>]], 1),
     Circuit("P", <<>>, 1),
     Circuit("P", <<[identifier |-> "x", expression |-> Identifier("a")],
                    [identifier |-> "y", expression |-> Identifier("b")]>>, 1),
     CircuitMemberAccess(Identifier("a"), "b", 1),
     CircuitStaticFunctionAccess(Identifier("a"), "b", 1),
     FunctionCall(Identifier("a"), <<>>, 1),
     FunctionCall(Identifier("a"), <<Identifier("b"), Identifier("c")>>, 1),
     ExampleLowered}

DisplayInputs == DisplayLeaves \cup DisplayFlat \cup DisplayNested \cup DisplayOthers

InitDisplay ==
    /\ exprA \in DisplayInputs
    /\ exprB \in DisplayInputs
    /\ textA = ""
    /\ textB = ""
    /\ shown = {}
    /\ LowerIdle
    /\ GadgetsIdle
    /\ FileIdle

\* format!("{}", exprA)
ShowA ==
    /\ "A" \notin shown
    /\ textA' = Display(exprA)
    /\ shown' = shown \cup {"A"}
    /\ UNCHANGED <<exprA, exprB, textB>>
    /\ UNCHANGED <<lowerVars, gadVars, fileVars>>

\* format!("{}", exprB)
ShowB ==
    /\ "B" \notin shown
    /\ textB' = Display(exprB)
    /\ shown' = shown \cup {"B"}
    /\ UNCHANGED <<exprA, exprB, textA>>
    /\ UNCHANGED <<lowerVars, gadVars, fileVars>>

NextDisplay == ShowA \/ ShowB

SpecDisplay == InitDisplay /\ [][NextDisplay]_vars

\* C6: Display is lossless: two expressions that differ apart from their
\* spans are rendered to different texts.
C6_DisplayLossless ==
    (shown = {"A", "B"} /\ exprA # exprB) => textA # textB

(***************************************************************************)
(* The u16 gadget calls of ConstrainedProgram<F, CS>.                      *)
(*                                                                         *)
(* CS is any ConstraintSystem.  The three of the proving backend differ in *)
(* what they do with the closures they are handed: the test system names   *)
(* every namespace (and panics on a path it already holds) and asks for    *)
(* every value; the prover drops the names and asks for every value; the   *)
(* key-generation system of setup drops both.                              *)
(***************************************************************************)
ConstraintSystems == {"test", "prover", "setup"}

\* The system calls the name closure of cs.ns(..).
EvaluatesNames(kind) == kind = "test"

\* The system calls the value closure of an allocation.
EvaluatesValues(kind) == kind \in {"test", "prover"}

\* 2^16: the values of a u16.
U16Modulus == 65536

None == [some |-> FALSE, v |-> 0]
Some(n) == [some |-> TRUE, v |-> n]

RECURSIVE U16ToString(_)
\* Display of an unsigned number: its decimal digits.
U16ToString(n) == IF n < 10 THEN DigitChar(n) ELSE U16ToString(n \div 10) \o DigitChar(n % 10)

NoLabel == [built |-> FALSE, text |-> ""]
Label(text) == [built |-> TRUE, text |-> text]

\* cs.ns(|| text): the label, for a system that calls the name closure.
NsLabel(kind, text) == IF EvaluatesNames(kind) THEN Label(text) ELSE NoLabel

\* A call's outcome: "Ok" with a value, "Err" with an IntegerError, or
\* "panic"; with the label it built and the allocation it asked for.
AssignmentMissing == "IntegerError::from(SynthesisError::AssignmentMissing)"
PanicUnwrapNone == "panic: called Option::unwrap() on a None value"
PanicExistingPath == "panic: tried to create object at existing path"

Outcome(outcome, err, tag, res, label) ==
    [outcome |-> outcome, err |-> err, tag |-> tag, res |-> res, label |-> label]

\* The cast keeping the host integer as it is.
AsU16_wide(integer) == integer

\* integer as u16
AsU16(integer) == integer % U16Modulus

\* UInt16::alloc / UInt16::alloc_input with the closure
\* || u16_option.ok_or(SynthesisError::AssignmentMissing): the bits are
\* allocated from the value, and a system that asks for the value of a bit
\* that has none gets the error.
UInt16Alloc(kind, u16_option) ==
    IF ~u16_option.some /\ EvaluatesValues(kind)
    THEN [ok |-> FALSE, value |-> None]
    ELSE [ok |-> TRUE, value |-> u16_option]

\* u16_from_input with the allocations swapped between the visibilities.
u16_from_input_swapped(kind, parameter_model, integer_option) ==
    LET u16_option == IF integer_option.some THEN Some(AsU16(integer_option.v)) ELSE None
        name == parameter_model.name
        integer_value == UInt16Alloc(kind, u16_option)
        request == [ns |-> name, mode |-> IF parameter_model.private THEN "alloc_input" ELSE "alloc"]
    IN [call |-> IF integer_value.ok
                 THEN Outcome("Ok", "", "Integer::U16", integer_value.value, NsLabel(kind, name))
                 ELSE Outcome("Err", AssignmentMissing, "", None, NsLabel(kind, name)),
        allocs |-> <<request>>]

\* u16_from_input refusing an absent value before it allocates.
u16_from_input_eager(kind, parameter_model, integer_option) ==
    LET name == parameter_model.name
        request == [ns |-> name, mode |-> IF parameter_model.private THEN "alloc" ELSE "alloc_input"]
    IN IF ~integer_option.some
       THEN [call |-> Outcome("Err", AssignmentMissing, "", None, NoLabel), allocs |-> <<>>]
       ELSE [call |-> Outcome("Ok", "", "Integer::U16", Some(AsU16(integer_option.v)), NsLabel(kind, name)),
             allocs |-> <<request>>]

u16_from_input(kind, parameter_model, integer_option) ==
    LET u16_option == IF integer_option.some THEN Some(AsU16(integer_option.v)) ELSE None
        name == parameter_model.name
        integer_value == UInt16Alloc(kind, u16_option)
        request == [ns |-> name, mode |-> IF parameter_model.private THEN "alloc" ELSE "alloc_input"]
    IN [call |-> IF integer_value.ok
                 THEN Outcome("Ok", "", "Integer::U16", integer_value.value, NsLabel(kind, name))
                 ELSE Outcome("Err", AssignmentMissing, "", None, NsLabel(kind, name)),
        allocs |-> <<request>>]

OpSymbol(op) ==
    CASE op = "add" -> " + " [] op = "sub" -> " - " [] op = "mul" -> " * "
      [] op = "div" -> " / " [] op = "pow" -> " ** "

\* format!("enforce {} <op> {}", left.value.unwrap(), right.value.unwrap())
FormatLabel(op, left, right) ==
    IF ~left.some \/ ~right.some THEN [ok |-> FALSE, text |-> ""]
    ELSE [ok |-> TRUE, text |-> "enforce " \o U16ToString(left.v) \o OpSymbol(op) \o U16ToString(right.v)]

RECURSIVE PowU16(_, _)
PowU16(b, e) == IF e = 0 THEN 1 ELSE (b * PowU16(b, e - 1)) % U16Modulus

\* The value of the gadget's result for assigned operands, in u16 arithmetic.
ArithmeticValue(op, l, r) ==
    CASE op = "add" -> (l + r) % U16Modulus
      [] op = "sub" -> (l - r) % U16Modulus
      [] op = "mul" -> (l * r) % U16Modulus
      [] op = "div" -> l \div r
      [] op = "pow" -> PowU16(l, r)

\* UInt16::addmany, sub, mul, div, pow on the operands (the divisor not
\* zero): the result's bits are allocated from the operands' values.
UInt16Arithmetic(kind, op, left, right) ==
    IF ~left.some \/ ~right.some
    THEN IF EvaluatesValues(kind) THEN Outcome("Err", AssignmentMissing, "", None, NoLabel)
         ELSE Outcome("Ok", "", "UInt16", None, NoLabel)
    ELSE Outcome("Ok", "", "UInt16", Some(ArithmeticValue(op, left.v, right.v)), NoLabel)

\* enforce_u16_add, _sub, _mul, _div, _pow: the namespace is opened first,
\* its name closure called by a system that names its namespaces.
enforce_u16_arithmetic(kind, op, left, right) ==
    LET label == FormatLabel(op, left, right) IN
    IF EvaluatesNames(kind) /\ ~label.ok THEN Outcome("panic", PanicUnwrapNone, "", None, NoLabel)
    ELSE [UInt16Arithmetic(kind, op, left, right) EXCEPT !.label = NsLabel(kind, label.text)]

\* enforce_u16_eq: left.enforce_equal under the namespace "enforce u16 equal".
enforce_u16_eq(kind, left, right) ==
    Outcome("Ok", "", "()", None, NsLabel(kind, "enforce u16 equal"))

\* The labels the scope holds.
Opened == {opened[i] : i \in 1..Len(opened)}

\* cs.ns(name): the system that names its namespaces panics on a label the
\* scope already holds; the label is asked for in either case.
Entered(kind, out) ==
    IF EvaluatesNames(kind) /\ out.label.built /\ out.label.text \in Opened
    THEN Outcome("panic", PanicExistingPath, "", None, out.label)
    ELSE out

U16Values == {None, Some(1), Some(2)}
HostIntegers == {None, Some(1), Some(U16Modulus), Some(U16Modulus + 1)}
ParameterModels == [name : {"x", "y"}, private : BOOLEAN]
ArithmeticOps == {"add", "sub", "mul", "div", "pow"}

Alive == ncalls < MaxCalls /\ (ncalls > 0 => last.out.outcome # "panic")

\* What every gadget call does to the scope.
Record(call, out, requests) ==
    /\ last' = [call EXCEPT !.out = Entered(csKind, out)]
    /\ opened' = IF EvaluatesNames(csKind) /\ out.label.built THEN Append(opened, out.label.text) ELSE opened
    /\ allocs' = IF Entered(csKind, out).outcome = "panic" THEN allocs ELSE allocs \o requests
    /\ ncalls' = ncalls + 1
    /\ UNCHANGED csKind
    /\ UNCHANGED <<lowerVars, dispVars, fileVars>>

Call(op, parameter_model, integer_option, left, right) ==
    [op |-> op, parameter_model |-> parameter_model, integer_option |-> integer_option,
     left |-> left, right |-> right, out |-> Outcome("", "", "", None, NoLabel)]

NoParameter == [name |-> "", private |-> FALSE]

InitGadget ==
    /\ csKind \in ConstraintSystems
    /\ opened = <<>>
    /\ allocs = <<>>
    /\ last = [op |-> "none"]
    /\ ncalls = 0
    /\ LowerIdle
    /\ DisplayIdle
    /\ FileIdle

\* A function's parameters have different names: each is allocated once.
U16FromInput ==
    /\ Alive
    /\ \E parameter_model \in ParameterModels, integer_option \in HostIntegers :
        /\ \A i \in 1..Len(allocs) : allocs[i].ns # parameter_model.name
        /\ LET r == u16_from_input(csKind, parameter_model, integer_option) IN
           Record(Call("u16_from_input", parameter_model, integer_option, None, None),
                  r.call, r.allocs)

EnforceEq ==
    /\ Alive
    /\ \E left \in U16Values, right \in U16Values :
        Record(Call("eq", NoParameter, None, left, right), enforce_u16_eq(csKind, left, right), <<>>)

EnforceAdd ==
    /\ Alive
    /\ \E left \in U16Values, right \in U16Values :
        Record(Call("add", NoParameter, None, left, right),
               enforce_u16_arithmetic(csKind, "add", left, right), <<>>)

EnforceSub ==
    /\ Alive
    /\ \E left \in U16Values, right \in U16Values :
        Record(Call("sub", NoParameter, None, left, right),
               enforce_u16_arithmetic(csKind, "sub", left, right), <<>>)

EnforceMul ==
    /\ Alive
    /\ \E left \in U16Values, right \in U16Values :
        Record(Call("mul", NoParameter, None, left, right),
               enforce_u16_arithmetic(csKind, "mul", left, right), <<>>)

EnforceDiv ==
    /\ Alive
    /\ \E left \in U16Values, right \in U16Values :
        Record(Call("div", NoParameter, None, left, right),
               enforce_u16_arithmetic(csKind, "div", left, right), <<>>)

EnforcePow ==
    /\ Alive
    /\ \E left \in U16Values, right \in U16Values :
        Record(Call("pow", NoParameter, None, left, right),
               enforce_u16_arithmetic(csKind, "pow", left, right), <<>>)

NextGadget ==
    \/ U16FromInput
    \/ EnforceEq
    \/ EnforceAdd
    \/ EnforceSub
    \/ EnforceMul
    \/ EnforceDiv
    \/ EnforcePow

SpecGadget == InitGadget /\ [][NextGadget]_vars

(***************************************************************************)
(* Properties of the gadget calls.                                         *)
(***************************************************************************)
\* C7: the labels of the namespaces the gadget calls open in one scope are
\* pairwise different.
C7_LabelsDistinct ==
    \A i \in 1..Len(opened), j \in 1..Len(opened) : i # j => opened[i] # opened[j]

\* C8: an arithmetic gadget call with an operand whose value is unassigned
\* returns a result or the missing-witness IntegerError, never panics, and
\* where the system names the namespace a label has been built for it.
C8_UnassignedOperandReturns ==
    (ncalls > 0 /\ last.op \in ArithmeticOps /\ (~last.left.some \/ ~last.right.some))
    => /\ last.out.outcome \in {"Ok", "Err"}
       /\ last.out.outcome = "Err" => last.out.err = AssignmentMissing
       /\ EvaluatesNames(csKind) => last.out.label.built

\* C9: u16_from_input without a value returns Ok at setup, the value tagged
\* Integer::U16 with an unassigned witness; it returns an error exactly when
\* the constraint system asks for the witness's value, the error is the
\* IntegerError of AssignmentMissing, and no value comes with it.
C9_AbsentValueDeferred ==
    (ncalls > 0 /\ last.op = "u16_from_input")
    => /\ last.out.outcome \in {"Ok", "Err"}
       /\ last.integer_option.some => last.out.outcome = "Ok" /\ last.out.res.some
       /\ ~last.integer_option.some =>
            /\ csKind = "setup" => last.out.outcome = "Ok"
            /\ last.out.outcome = "Ok" => last.out.tag = "Integer::U16" /\ ~last.out.res.some
            /\ last.out.outcome = "Err" <=> EvaluatesValues(csKind)
            /\ last.out.outcome = "Err" =>
                /\ last.out.err = AssignmentMissing
                /\ last.out.tag = ""
                /\ last.out.res = None

C9_Witness ==
    /\ csKind = "setup" /\ ncalls > 0 /\ last.op = "u16_from_input"
    /\ ~last.integer_option.some
    /\ last.out.outcome = "Ok" /\ ~last.out.res.some

\* C10: a call of u16_from_input makes exactly one allocation, under the
\* namespace named after the parameter: alloc for a private parameter,
\* alloc_input for a public one; a value it returns is tagged Integer::U16.
C10_OneAllocationByVisibility ==
    [][(ncalls' = ncalls + 1 /\ last'.op = "u16_from_input")
        => /\ allocs' = Append(allocs,
                   [ns |-> last'.parameter_model.name,
                    mode |-> IF last'.parameter_model.private THEN "alloc" ELSE "alloc_input"])
           /\ EvaluatesNames(csKind) => opened' = Append(opened, last'.parameter_model.name)
           /\ last'.out.outcome = "Ok" => last'.out.tag = "Integer::U16"]_vars

C10_Witness ==
    /\ ncalls = 2 /\ last.op = "u16_from_input" /\ ~last.parameter_model.private
    /\ Len(allocs) = 2
    /\ allocs[1].mode = "alloc"
    /\ allocs[2] = [ns |-> last.parameter_model.name, mode |-> "alloc_input"]

\* C11: u16_from_input with a host integer v returns Ok with a witness whose
\* value is below 2^16 and differs from v by a multiple of 2^16 (v mod 2^16),
\* whatever the visibility of the parameter: v >= 2^16 raises no error.
C11_SilentNarrowing ==
    (ncalls > 0 /\ last.op = "u16_from_input" /\ last.integer_option.some)
    => /\ last.out.outcome = "Ok"
       /\ last.out.err = ""
       /\ last.out.res.some
       /\ last.out.res.v \in 0..(U16Modulus - 1)
       /\ \E q \in 0..(last.integer_option.v \div U16Modulus) :
            last.integer_option.v = q * U16Modulus + last.out.res.v

C11_Witness ==
    /\ ncalls > 0 /\ last.op = "u16_from_input" /\ ~last.parameter_model.private
    /\ last.integer_option = Some(U16Modulus + 1)
    /\ last.out.outcome = "Ok" /\ last.out.res = Some(1)

(***************************************************************************)
(* package/src/outputs/verification_key.rs                                 *)
(*                                                                         *)
(* A path is the sequence of its components.  The file system is a record: *)
(* dirs, the set of directories; files, a function from the paths of the   *)
(* regular files to their bytes; locked, the directories whose entries     *)
(* cannot be created or removed; full, whether the disk takes no more data.*)
(* The VerificationKeyFile only ever creates, writes, reads and removes    *)
(* regular files, so dirs, locked and full stay as they start.             *)
(***************************************************************************)

\* Bound on the number of calls made on the VerificationKeyFile.
MaxFileCalls == 3

\* crate::outputs::OUTPUTS_DIRECTORY_NAME, as a path component.
OUTPUTS_DIRECTORY_NAME == "outputs"

VERIFICATION_KEY_FILE_EXTENSION == ".lvk"

\* std::path: Path::is_dir, Path::exists, Path::ends_with, PathBuf::push, Path::parent
IsFile(fsys, path) == path \in DOMAIN fsys.files
PathIsDir(fsys, path) == path \in fsys.dirs
PathExists(fsys, path) == PathIsDir(fsys, path) \/ IsFile(fsys, path)
PathEndsWith(path, child) == Len(path) > 0 /\ path[Len(path)] = child
PathPush(path, component) == Append(path, component)
PathParent(path) == SubSeq(path, 1, Len(path) - 1)

\* The files function with path holding bytes.
WithFile(files, path, bytes) ==
    [p \in (DOMAIN files) \cup {path} |-> IF p = path THEN bytes ELSE files[p]]

\* The files function without path.
WithoutFile(files, path) == [p \in (DOMAIN files) \ {path} |-> files[p]]

\* std::fs::File::create: creates the file or truncates it.  It fails on a
\* directory, under a missing parent, and for a new entry of a locked parent.
FileCreate(fsys, path) ==
    IF \/ PathIsDir(fsys, path)
       \/ Len(path) = 0
       \/ ~PathIsDir(fsys, PathParent(path))
       \/ (~IsFile(fsys, path) /\ PathParent(path) \in fsys.locked)
    THEN [ok |-> FALSE, fsys |-> fsys]
    ELSE [ok |-> TRUE, fsys |-> [fsys EXCEPT !.files = WithFile(@, path, <<>>)]]

\* Write::write_all on the created file: fails when the disk is full and
\* there is something to write.
FileWriteAll(fsys, path, bytes) ==
    IF fsys.full /\ bytes # <<>>
    THEN [ok |-> FALSE, fsys |-> fsys]
    ELSE [ok |-> TRUE, fsys |-> [fsys EXCEPT !.files = WithFile(@, path, bytes)]]

\* std::fs::read
FsRead(fsys, path) ==
    IF IsFile(fsys, path) THEN [ok |-> TRUE, bytes |-> fsys.files[path]]
    ELSE [ok |-> FALSE, bytes |-> <<>>]

\* std::fs::remove_file: fails on a directory, on a missing file, and for an
\* entry of a locked parent.
FsRemoveFile(fsys, path) ==
    IF IsFile(fsys, path) /\ PathParent(path) \notin fsys.locked
    THEN [ok |-> TRUE, fsys |-> [fsys EXCEPT !.files = WithoutFile(@, path)]]
    ELSE [ok |-> FALSE, fsys |-> fsys]

\* The value a call returns: Ok or Err, with the error's name, the boolean,
\* the bytes or the path of an Ok where the call has one.
FileOut(outcome, err, flag, bytes, path) ==
    [outcome |-> outcome, err |-> err, flag |-> flag, bytes |-> bytes, path |-> path]

OkPath(path) == FileOut("Ok", "", FALSE, <<>>, path)
OkFlag(flag) == FileOut("Ok", "", flag, <<>>, <<>>)
OkBytes(bytes) == FileOut("Ok", "", FALSE, bytes, <<>>)
ErrFile(err) == FileOut("Err", err, FALSE, <<>>, <<>>)

\* The file name pushed under a directory.
KeyFileName(name) == name \o VERIFICATION_KEY_FILE_EXTENSION

\* setup_file_path pushing the outputs directory under every directory.
setup_file_path_nested(fsys, name, path) ==
    IF PathIsDir(fsys, path)
    THEN PathPush(PathPush(path, OUTPUTS_DIRECTORY_NAME), KeyFileName(name))
    ELSE path

setup_file_path(fsys, name, path) ==
    IF PathIsDir(fsys, path)
    THEN LET dir == IF ~PathEndsWith(path, OUTPUTS_DIRECTORY_NAME)
                    THEN PathPush(path, OUTPUTS_DIRECTORY_NAME)
                    ELSE path
         IN PathPush(dir, KeyFileName(name))
    ELSE path

full_path(fsys, name, path) ==
    [out |-> OkPath(setup_file_path(fsys, name, path)), fsys |-> fsys]

exists_at(fsys, name, path) ==
    LET resolved == setup_file_path(fsys, name, path)
    IN [out |-> OkFlag(PathExists(fsys, resolved)), fsys |-> fsys]

read_from(fsys, name, path) ==
    LET resolved == setup_file_path(fsys, name, path)
        read == FsRead(fsys, resolved)
    IN [out |-> IF read.ok THEN OkBytes(read.bytes)
                ELSE ErrFile("failed_to_read_verification_key_file"),
        fsys |-> fsys]

write_to(fsys, name, path, verification_key) ==
    LET resolved == setup_file_path(fsys, name, path)
        created == FileCreate(fsys, resolved)
        written == FileWriteAll(created.fsys, resolved, verification_key)
    IN IF ~created.ok
       THEN [out |-> ErrFile("io_error_verification_key_file"), fsys |-> created.fsys]
       ELSE IF written.ok
       THEN [out |-> OkPath(resolved), fsys |-> written.fsys]
       ELSE [out |-> ErrFile("io_error_verification_key_file"), fsys |-> written.fsys]

\* remove going to remove_file without looking for the file first.
remove_unguarded(fsys, name, path) ==
    LET resolved == setup_file_path(fsys, name, path)
        removed == FsRemoveFile(fsys, resolved)
    IN IF removed.ok THEN [out |-> OkFlag(TRUE), fsys |-> removed.fsys]
       ELSE [out |-> ErrFile("failed_to_remove_verification_key_file"), fsys |-> removed.fsys]

remove(fsys, name, path) ==
    LET resolved == setup_file_path(fsys, name, path)
        removed == FsRemoveFile(fsys, resolved)
    IN IF ~PathExists(fsys, resolved)
       THEN [out |-> OkFlag(FALSE), fsys |-> fsys]
       ELSE IF removed.ok
       THEN [out |-> OkFlag(TRUE), fsys |-> removed.fsys]
       ELSE [out |-> ErrFile("failed_to_remove_verification_key_file"), fsys |-> removed.fsys]

\* ---- inputs ----
PackageNames == {"pkg", "app"}

ProjectDir == <<"proj">>
OutputsDir == <<"proj", "outputs">>
PkgKeyPath == <<"proj", "outputs", "pkg.lvk">>

\* The path arguments: a directory, the outputs directory (where it exists),
\* and a path that is no directory unless the file system has one there.
PathArguments == {ProjectDir, OutputsDir, PkgKeyPath}

VerificationKeys == {<<1>>, <<2, 3>>}

OldKey == <<9>>

\* The file systems the calls start from.
FileSystems ==
    { [dirs |-> {ProjectDir, OutputsDir}, files |-> <<>>, locked |-> {}, full |-> FALSE],
      [dirs |-> {ProjectDir}, files |-> <<>>, locked |-> {}, full |-> FALSE],
      [dirs |-> {ProjectDir, OutputsDir}, files |-> WithFile(<<>>, PkgKeyPath, OldKey),
       locked |-> {OutputsDir}, full |-> FALSE],
      [dirs |-> {ProjectDir, OutputsDir, PkgKeyPath}, files |-> <<>>, locked |-> {},
       full |-> FALSE],
      [dirs |-> {ProjectDir, OutputsDir}, files |-> WithFile(<<>>, PkgKeyPath, OldKey),
       locked |-> {}, full |-> TRUE] }

\* ---- the calls ----
\* One entry of fileCalls: the operation, its path argument, the bytes handed
\* to write_to, the file system before the call, and what the call returned.
FileCall(op, path, verification_key, before, out) ==
    [op |-> op, path |-> path, verification_key |-> verification_key,
     before |-> before, out |-> out]

RecordFile(op, path, verification_key, ret) ==
    /\ Len(fileCalls) < MaxFileCalls
    /\ fileCalls' = Append(fileCalls, FileCall(op, path, verification_key, fs, ret.out))
    /\ fs' = ret.fsys
    /\ UNCHANGED package_name
    /\ UNCHANGED <<lowerVars, dispVars, gadVars>>

InitFile ==
    /\ package_name \in PackageNames
    /\ fs \in FileSystems
    /\ fileCalls = <<>>
    /\ LowerIdle
    /\ DisplayIdle
    /\ GadgetsIdle

FullPath ==
    \E path \in PathArguments :
        RecordFile("full_path", path, <<>>, full_path(fs, package_name, path))

ExistsAt ==
    \E path \in PathArguments :
        RecordFile("exists_at", path, <<>>, exists_at(fs, package_name, path))

ReadFrom ==
    \E path \in PathArguments :
        RecordFile("read_from", path, <<>>, read_from(fs, package_name, path))

WriteTo ==
    \E path \in PathArguments, verification_key \in VerificationKeys :
        RecordFile("write_to", path, verification_key,
                   write_to(fs, package_name, path, verification_key))

Remove ==
    \E path \in PathArguments :
        RecordFile("remove", path, <<>>, remove(fs, package_name, path))

NextFile == FullPath \/ ExistsAt \/ ReadFrom \/ WriteTo \/ Remove

SpecFile == InitFile /\ [][NextFile]_vars

\* ---- claims about the verification key file ----
\* The file system the i-th call left behind.
FsAfter(i) == IF i < Len(fileCalls) THEN fileCalls[i + 1].before ELSE fs

\* The path the i-th call resolved its argument to.
ResolvedAt(i) == setup_file_path(fileCalls[i].before, package_name, fileCalls[i].path)

\* C12: remove returns Ok(false) and changes nothing when nothing exists at
\* the resolved path; it returns Ok(true) exactly when the file existed and
\* the call deleted it (and nothing else), and then an exists_at of the same
\* path that follows returns false and a remove that follows returns
\* Ok(false); when the path exists and is still there after the call, the
\* call returned an error.
C12_RemoveOutcomes ==
    \A i \in 1..Len(fileCalls) :
        fileCalls[i].op = "remove" =>
            LET call == fileCalls[i]
                before == call.before
                after == FsAfter(i)
                resolved == ResolvedAt(i)
            IN /\ ~PathExists(before, resolved)
                    => (call.out = OkFlag(FALSE) /\ after = before)
               /\ (PathExists(before, resolved) /\ ~PathExists(after, resolved))
                    => call.out = OkFlag(TRUE)
               /\ call.out = OkFlag(TRUE)
                    => /\ IsFile(before, resolved)
                       /\ ~PathExists(after, resolved)
                       /\ after = [before EXCEPT !.files = WithoutFile(@, resolved)]
                       /\ (i < Len(fileCalls) /\ fileCalls[i + 1].path = call.path)
                            => /\ fileCalls[i + 1].op = "exists_at"
                                    => fileCalls[i + 1].out = OkFlag(FALSE)
                               /\ fileCalls[i + 1].op = "remove"
                                    => fileCalls[i + 1].out = OkFlag(FALSE)
               /\ (PathExists(before, resolved) /\ PathExists(after, resolved))
                    => (call.out.outcome = "Err" /\ after = before)

C12_Witness ==
    /\ Len(fileCalls) = 3
    /\ fileCalls[1].op = "remove" /\ fileCalls[1].out = OkFlag(TRUE)
    /\ fileCalls[1].path = ProjectDir
    /\ IsFile(fileCalls[1].before, PkgKeyPath)
    /\ fileCalls[2].op = "exists_at" /\ fileCalls[2].path = ProjectDir
    /\ fileCalls[2].out = OkFlag(FALSE)
    /\ fileCalls[3].op = "remove" /\ fileCalls[3].path = ProjectDir
    /\ fileCalls[3].out = OkFlag(FALSE)

\* The file the claim names for a path argument: <dir>/outputs/<package>.lvk,
\* <dir>/<package>.lvk, or the path itself.
NamedFile(fsys, path) ==
    IF path \in fsys.dirs /\ path[Len(path)] # "outputs"
    THEN path \o <<"outputs", package_name \o ".lvk">>
    ELSE IF path \in fsys.dirs
    THEN path \o <<package_name \o ".lvk">>
    ELSE path

\* The file of the i-th call.
FileAt(i) == NamedFile(fileCalls[i].before, fileCalls[i].path)

\* The i-th call acted on its named file and on nothing else.
ActsOnNamedFile(i) ==
    LET call == fileCalls[i]
        before == call.before
        after == FsAfter(i)
        file == FileAt(i)
        isFile == file \in DOMAIN before.files
        exists == isFile \/ file \in before.dirs
    IN CASE call.op = "full_path" -> call.out = OkPath(file) /\ after = before
         [] call.op = "exists_at" -> call.out = OkFlag(exists) /\ after = before
         [] call.op = "read_from" ->
                /\ after = before
                /\ IF isFile THEN call.out = OkBytes(before.files[file])
                   ELSE call.out.outcome = "Err"
         [] call.op = "write_to" ->
                IF call.out.outcome = "Ok"
                THEN /\ call.out = OkPath(file)
                     /\ after = [before EXCEPT !.files =
                                    WithFile(@, file, call.verification_key)]
                ELSE \A other \in DOMAIN before.files :
                        other # file =>
                            /\ other \in DOMAIN after.files
                            /\ after.files[other] = before.files[other]
         [] call.op = "remove" ->
                /\ (call.out = OkFlag(FALSE)) <=> ~exists
                /\ call.out = OkFlag(TRUE)
                        => after = [before EXCEPT !.files = WithoutFile(@, file)]
                /\ call.out # OkFlag(TRUE) => after = before

\* No remove and no write_to on the file between the i-th and the j-th call.
Undisturbed(i, j, file) ==
    \A k \in (i + 1)..(j - 1) :
        fileCalls[k].op \in {"remove", "write_to"} => FileAt(k) # file

\* C13: every operation acts on the one file named for its path argument
\* (<dir>/outputs/<package>.lvk for a directory not ending in outputs,
\* <dir>/<package>.lvk for a directory ending in it, the path itself
\* otherwise), the same for the same argument throughout; and after a
\* write_to that returned Ok, exists_at of the path returns true and read_from
\* of the path returns the bytes written, as long as no remove and no other
\* write_to came on that file.
C13_OneFilePerPath ==
    /\ \A i \in 1..Len(fileCalls) : ActsOnNamedFile(i)
    /\ \A i, j \in 1..Len(fileCalls) :
            fileCalls[i].path = fileCalls[j].path => FileAt(i) = FileAt(j)
    /\ \A i, j \in 1..Len(fileCalls) :
            (/\ i < j
             /\ fileCalls[i].op = "write_to" /\ fileCalls[i].out.outcome = "Ok"
             /\ fileCalls[j].path = fileCalls[i].path
             /\ Undisturbed(i, j, FileAt(i)))
            => /\ fileCalls[j].op = "exists_at" => fileCalls[j].out = OkFlag(TRUE)
               /\ fileCalls[j].op = "read_from"
                    => fileCalls[j].out = OkBytes(fileCalls[i].verification_key)

C13_Witness ==
    /\ Len(fileCalls) = 3
    /\ fileCalls[1].op = "write_to" /\ fileCalls[1].path = OutputsDir
    /\ fileCalls[1].verification_key = <<2, 3>>
    /\ fileCalls[1].out = OkPath(<<"proj", "outputs", "app.lvk">>)
    /\ fileCalls[2].op = "exists_at" /\ fileCalls[2].path = OutputsDir
    /\ fileCalls[2].out = OkFlag(TRUE)
    /\ fileCalls[3].op = "read_from" /\ fileCalls[3].path = OutputsDir
    /\ fileCalls[3].out = OkBytes(<<2, 3>>)

====
